---- MODULE Spec2Model ----
(***************************************************************************)
(* A model of the bazel-buildbarn local build executor (package builder)  *)
(* and of the BlobAccess-backed action cache (package ac).                *)
(*                                                                         *)
(* Go strings that the code treats as paths are modelled as sequences of  *)
(* one-character strings, so that path.Clean / path.Join / path.Dir are   *)
(* computed the way the Go library computes them.                         *)
(***************************************************************************)
EXTENDS Integers, Sequences, FiniteSets, TLC

(***************************************************************************)
(* Fixed paths of the executor.                                            *)
(***************************************************************************)
pathTempRoot == <<"/", "t", "m", "p">>
pathBuildRoot == <<"/", "b", "u", "i", "l", "d">>
pathStdout == <<"/", "s", "t", "d", "o", "u", "t">>
pathStderr == <<"/", "s", "t", "d", "e", "r", "r">>
pathRoot == <<"/">>

(***************************************************************************)
(* Go's path package: Clean, Join, Dir.                                    *)
(***************************************************************************)
\* Path names are strings, kept as sequences of characters.  The loops of the
\* path package are recursive functions: a call passes values, as Go does.
PathName == Seq(STRING)

\* Clean's handling of "..": out.w--, then back to the previous separator.
backtrack[out \in PathName, w \in Nat, dotdot \in Nat] ==
    IF w > dotdot /\ out[w + 1] # "/" THEN backtrack[out, w - 1, dotdot]
    ELSE SubSeq(out, 1, w)

\* The index just past the path element that starts at r.
elementEnd[p \in PathName, r \in Nat] ==
    IF r <= Len(p) /\ p[r] # "/" THEN elementEnd[p, r + 1] ELSE r

\* Clean's loop: for r < n, with the buffer out and the position dotdot.
cleanLoop[p \in PathName, r \in Nat, out \in PathName, dotdot \in Nat, rooted \in BOOLEAN] ==
    IF r > Len(p) THEN out
    ELSE IF p[r] = "/" THEN cleanLoop[p, r + 1, out, dotdot, rooted]
    ELSE IF p[r] = "." /\ (r = Len(p) \/ p[r + 1] = "/")
         THEN cleanLoop[p, r + 1, out, dotdot, rooted]
    ELSE IF p[r] = "." /\ p[r + 1] = "." /\ (r + 1 = Len(p) \/ p[r + 2] = "/")
         THEN IF Len(out) > dotdot
                 THEN cleanLoop[p, r + 2, backtrack[out, Len(out) - 1, dotdot],
                                dotdot, rooted]
              ELSE IF ~rooted
                 THEN LET o2 == (IF Len(out) > 0 THEN out \o <<"/">> ELSE out)
                                \o <<".", ".">>
                      IN  cleanLoop[p, r + 2, o2, Len(o2), rooted]
              ELSE cleanLoop[p, r + 2, out, dotdot, rooted]
    ELSE LET o2 == IF (rooted /\ Len(out) # 1) \/ (~rooted /\ Len(out) # 0)
                      THEN out \o <<"/">> ELSE out
             e == elementEnd[p, r]
         IN  cleanLoop[p, e, o2 \o SubSeq(p, r, e - 1), dotdot, rooted]

\* path.Clean: the shortest path name equivalent to p by lexical processing.
Clean(p) ==
    IF p = <<>> THEN <<".">>
    ELSE LET rooted == p[1] = "/"
             out == IF rooted THEN cleanLoop[p, 2, <<"/">>, 1, TRUE]
                    ELSE cleanLoop[p, 1, <<>>, 0, FALSE]
         IN  IF out = <<>> THEN <<".">> ELSE out

\* path.Join's buffer: the non-empty leading element, then "/" + each later one.
joinBuf[elem \in Seq(PathName), buf \in PathName] ==
    IF elem = <<>> THEN buf
    ELSE LET e == Head(elem)
         IN  IF Len(buf) > 0 THEN joinBuf[Tail(elem), buf \o <<"/">> \o e]
             ELSE IF e # <<>> THEN joinBuf[Tail(elem), e]
             ELSE joinBuf[Tail(elem), buf]

\* path.Join: joins the elements with slashes; the result is Cleaned.
Join(elem) ==
    LET buf == joinBuf[elem, <<>>]
    IN  IF buf = <<>> THEN <<>> ELSE Clean(buf)

\* strings.LastIndex(p, "/") + 1, looking from i down.
lastSlash[p \in PathName, i \in Nat] ==
    IF i = 0 THEN 0 ELSE IF p[i] = "/" THEN i ELSE lastSlash[p, i - 1]

\* path.Dir: all but the last element of p, Cleaned.
Dir(p) == Clean(SubSeq(p, 1, lastSlash[p, Len(p)]))

\* path.Base restricted to Cleaned paths: the last element.
Base(p) == SubSeq(p, lastSlash[p, Len(p)] + 1, Len(p))

HasPrefix(p, q) == Len(p) >= Len(q) /\ SubSeq(p, 1, Len(q)) = q

\* p is dir itself or lies below it.
Within(p, dir) == p = dir \/ HasPrefix(p, dir \o <<"/">>)

(***************************************************************************)
(* Go error values.  kind is the errno of an os error, "errorString" for   *)
(* errors.New / fmt.Errorf, "ExitError" / "ExecError" for os/exec, or the  *)
(* gRPC status code of an error returned by the CAS.  status carries the   *)
(* wait status of an ExitError.                                            *)
(***************************************************************************)
nil == [kind |-> "nil", op |-> "", status |-> 0]
osError(errno, op) == [kind |-> errno, op |-> op, status |-> 0]
errorString(msg) == [kind |-> "errorString", op |-> msg, status |-> 0]
casError(code, op) == [kind |-> code, op |-> op, status |-> 0]
exitError(ws) == [kind |-> "ExitError", op |-> "wait", status |-> ws]

\* ctx.Err() of a cancelled context
contextCanceled == [kind |-> "Canceled", op |-> "context", status |-> 0]

\* os.IsNotExist
IsNotExist(err) == err.kind = "ENOENT"

\* The errors that come out of a CAS call as a gRPC status.
StatusCodes == {"Unavailable", "NotFound"}
CasOps == {"GetAction", "GetCommand", "GetDirectory", "GetFile", "PutFile", "PutTree"}
IsCasError(err) == err.kind \in StatusCodes /\ err.op \in CasOps

(***************************************************************************)
(* The local filesystem: a function from Cleaned absolute paths to nodes.  *)
(* An operation returns the filesystem it leaves and its error.            *)
(***************************************************************************)
ModeDir == 511
ModeExecutable == 365
ModeRegular == 292
ModeStream == 0

dirNode == [type |-> "dir", data |-> <<>>, mode |-> ModeDir]
fileNode(data, mode) == [type |-> "file", data |-> data, mode |-> mode]

Exists(fs, p) == p \in DOMAIN fs
IsDir(fs, p) == Exists(fs, p) /\ fs[p].type = "dir"
IsFile(fs, p) == Exists(fs, p) /\ fs[p].type = "file"

withNode(fs, p, node) == [q \in DOMAIN fs \cup {p} |-> IF q = p THEN node ELSE fs[q]]

\* The error of creating an entry in directory parent, or nil.
entryError(fs, parent, op) ==
    IF ~Exists(fs, parent) THEN osError("ENOENT", op)
    ELSE IF ~IsDir(fs, parent) THEN osError("ENOTDIR", op)
    ELSE nil

\* The error of creating p anew (O_CREATE|O_EXCL, mkdir), or nil.
createError(fs, p, pe, op) ==
    IF pe # nil THEN pe
    ELSE IF Exists(fs, p) THEN osError("EEXIST", op)
    ELSE nil

created(fs, p, node, err) ==
    IF err # nil THEN [fs |-> fs, err |-> err]
    ELSE [fs |-> withNode(fs, p, node), err |-> nil]

\* os.Mkdir
Mkdir(fs, p) ==
    created(fs, p, dirNode,
            createError(fs, p, entryError(fs, Dir(p), "mkdir"), "mkdir"))

RECURSIVE MkdirAll(_, _)
\* os.MkdirAll: creates p and any missing parents; nil when p is a directory.
mkdirAfter(up, p) == IF up.err # nil THEN up ELSE Mkdir(up.fs, p)
MkdirAll(fs, p) ==
    IF IsDir(fs, p) THEN [fs |-> fs, err |-> nil]
    ELSE IF Exists(fs, p) THEN [fs |-> fs, err |-> osError("ENOTDIR", "mkdir")]
    ELSE mkdirAfter(MkdirAll(fs, Dir(p)), p)

\* os.RemoveAll: removes p and everything below it; no error when p is absent.
RemoveAll(fs, p) == [q \in {r \in DOMAIN fs : ~Within(r, p)} |-> fs[q]]

\* os.OpenFile(p, O_WRONLY|O_CREATE|O_TRUNC, 0)
openTruncate(fs, p) ==
    IF IsDir(fs, p) THEN [fs |-> fs, err |-> osError("EISDIR", "open")]
    ELSE IF Exists(fs, p)
       THEN [fs |-> withNode(fs, p, fileNode(<<>>, fs[p].mode)), err |-> nil]
    ELSE [fs |-> withNode(fs, p, fileNode(<<>>, ModeStream)), err |-> nil]

\* The entries directly inside directory p.
Entries(fs, p) == {q \in DOMAIN fs : q # p /\ Dir(q) = p}

\* Everything at or below p.
Subtree(fs, p) == {q \in DOMAIN fs : Within(q, p)}

(***************************************************************************)
(* Remote Execution API messages.  File contents are sequences of chunks.  *)
(* A digest is the hash of the content it names (the size, which the      *)
(* content determines, is left out).                                       *)
(***************************************************************************)
sha256(x) == <<"sha256", x>>
\* The digest PutFile computes for file contents.
DigestOfData(data) == [Hash |-> sha256(data)]
\* util.DigestFromMessage: the digest of a marshalled message.
DigestFromMessage(m) == [Hash |-> sha256(m)]

FileNode(name, data, exec) ==
    [Name |-> name, Digest |-> DigestOfData(data), IsExecutable |-> exec]
DirectoryNode(name, dir) == [Name |-> name, Digest |-> DigestFromMessage(dir)]
SymlinkNode(name, target) == [Name |-> name, Target |-> target]
Directory(files, dirs, links) ==
    [Files |-> files, Directories |-> dirs, Symlinks |-> links]
Command(args, wd, outFiles, outDirs) ==
    [Arguments |-> args, WorkingDirectory |-> wd,
     OutputFiles |-> outFiles, OutputDirectories |-> outDirs]
Action(cmd, root, doNotCache) ==
    [CommandDigest |-> DigestFromMessage(cmd),
     InputRootDigest |-> DigestFromMessage(root), Timeout |-> 0,
     DoNotCache |-> doNotCache]
\* The action with a timeout, in seconds.
withTimeout(act, seconds) == [act EXCEPT !.Timeout = seconds]

zeroDigest == [Hash |-> <<>>]
\* An ActionResult with every field at its zero value.
zeroResult ==
    [ExitCode |-> 0, StdoutDigest |-> zeroDigest, StderrDigest |-> zeroDigest,
     OutputFiles |-> <<>>, OutputDirectories |-> <<>>]
zeroAction == [CommandDigest |-> zeroDigest, InputRootDigest |-> zeroDigest,
               Timeout |-> 0, DoNotCache |-> FALSE]
zeroCommand == Command(<<>>, <<>>, <<>>, <<>>)

(***************************************************************************)
(* The blobs that clients have stored in the CAS: file contents, input     *)
(* roots, commands and actions that Execute requests can name.             *)
(***************************************************************************)
hello == <<"he", "llo">>
world == <<"wor", "ld">>

nameA == <<"a">>
nameO == <<"o">>
nameM == <<"m">>
nameD == <<"d">>
nameDO == <<"d", "/", "o">>
nameUpX == <<".", ".", "/", "x">>
nameUp == <<".", ".">>
nameAbsA == <<"/", "a">>
nameADotDot == <<"d", "/", ".", ".", "/", "o">>

dirEmpty == Directory(<<>>, <<>>, <<>>)
dirA == Directory(<<FileNode(nameA, hello, FALSE)>>, <<>>, <<>>)
dirNested ==
    Directory(<<FileNode(nameA, world, TRUE)>>, <<DirectoryNode(nameD, dirA)>>, <<>>)
dirEscape == Directory(<<FileNode(nameUpX, hello, FALSE)>>, <<>>, <<>>)
dirAbs == Directory(<<FileNode(nameAbsA, hello, FALSE)>>, <<>>, <<>>)
dirLink == Directory(<<FileNode(nameA, hello, FALSE)>>, <<>>, <<SymlinkNode(nameO, nameA)>>)
dirLinked == Directory(<<>>, <<DirectoryNode(nameD, dirLink)>>, <<>>)
dirDup ==
    Directory(<<FileNode(nameA, hello, FALSE), FileNode(nameA, world, TRUE)>>, <<>>, <<>>)

AllDirectories ==
    {dirEmpty, dirA, dirNested, dirEscape, dirAbs, dirLink, dirLinked, dirDup}
AllFileData == {hello, world}

cmdTrue == Command(<<"/bin/true">>, <<>>, <<>>, <<>>)
cmdCp == Command(<<"/bin/cp">>, <<>>, <<nameM, nameO, nameA>>, <<nameM>>)
cmdCpSub == Command(<<"/bin/cp">>, nameD, <<nameDO>>, <<>>)
cmdGen == Command(<<"/bin/gen">>, <<>>, <<nameO>>, <<nameD, nameM>>)
cmdMissing == Command(<<"/nonexistent">>, <<>>, <<nameO>>, <<>>)
cmdOutUp == Command(<<"/bin/true">>, <<>>, <<nameUpX>>, <<>>)
cmdOutClean == Command(<<"/bin/cp">>, <<>>, <<nameADotDot>>, <<>>)
cmdWdUp == Command(<<"/bin/gen">>, nameUp, <<>>, <<>>)
cmdEmpty == Command(<<>>, <<>>, <<>>, <<>>)

AllCommands ==
    {cmdTrue, cmdCp, cmdCpSub, cmdGen, cmdMissing, cmdOutUp, cmdOutClean,
     cmdWdUp, cmdEmpty}

AllActions ==
    {Action(cmdTrue, dirEmpty, FALSE), Action(cmdCp, dirA, FALSE),
     withTimeout(Action(cmdCpSub, dirNested, FALSE), 1),
     Action(cmdGen, dirNested, FALSE),
     Action(cmdGen, dirEmpty, TRUE), Action(cmdMissing, dirA, FALSE),
     Action(cmdTrue, dirEscape, FALSE), Action(cmdOutUp, dirEmpty, FALSE),
     Action(cmdOutClean, dirNested, FALSE), Action(cmdTrue, dirAbs, FALSE),
     Action(cmdWdUp, dirEmpty, FALSE), Action(cmdEmpty, dirEmpty, FALSE),
     Action(cmdTrue, dirLinked, FALSE), Action(cmdTrue, dirDup, FALSE)}

Instances == {"main"}

\* The ExecuteRequests a client can send.
Requests ==
    {[InstanceName |-> i, ActionDigest |-> DigestFromMessage(a)] :
        i \in Instances, a \in AllActions}

(***************************************************************************)
(* The CAS as the executor sees it.  Any call can fail: a fault names the  *)
(* call (counted within one stage of Execute) that fails, the status it    *)
(* fails with and, for GetFile, how many chunks were copied before that.   *)
(***************************************************************************)
MaxFault == 4
MaxCopied == 1

Faults ==
    {[at |-> 0, code |-> "Unavailable", copied |-> 0]} \cup
    [at : 1..MaxFault, code : StatusCodes, copied : 0..MaxCopied]
noFault == [at |-> 0, code |-> "Unavailable", copied |-> 0]

\* The state one stage threads through its calls: the filesystem, the number
\* of CAS calls made so far, the paths acted on, the error being returned,
\* and (faulted) the error the CAS itself answered a call with, if any.
\* A step applied to a stage that holds an error does nothing: the code has
\* returned.
stage(fs) == [fs |-> fs, calls |-> 0, touched |-> {}, err |-> nil, faulted |-> nil]
failed(s, err) == [s EXCEPT !.err = err]
faultOf(n, fault, op) == IF n = fault.at THEN casError(fault.code, op) ELSE nil
called(s, e) ==
    [s EXCEPT !.calls = @ + 1, !.err = e,
              !.faulted = IF e # nil /\ @ = nil THEN e ELSE @]
\* A CAS call that fails with e before it reaches the store.
refused(s, e) == [s EXCEPT !.err = e, !.faulted = IF @ = nil THEN e ELSE @]
\* Counts one CAS call; the error it returns under the fault, or nil.
casCall(s, fault, op) ==
    IF s.err # nil THEN s ELSE called(s, faultOf(s.calls + 1, fault, op))

\* The outcome r of a filesystem operation that created things, in a stage.
applied(s, r) ==
    [s EXCEPT !.fs = r.fs, !.err = r.err,
              !.touched = @ \cup (DOMAIN r.fs \ DOMAIN s.fs)]

\* GetAction / GetCommand / GetDirectory: the message stored under digest.
GetAction(digest) == CHOOSE a \in AllActions : DigestFromMessage(a) = digest
GetCommand(digest) == CHOOSE c \in AllCommands : DigestFromMessage(c) = digest
GetDirectory(digest) == CHOOSE d \in AllDirectories : DigestFromMessage(d) = digest
GetBlob(digest) == CHOOSE b \in AllFileData : DigestOfData(b) = digest

\* io.Copy(f, r): what the file holds once the read has ended, in error or not.
copied(c, fault, data, outputPath, mode) ==
    [c EXCEPT !.fs = withNode(c.fs, outputPath,
                        fileNode(IF c.err = nil THEN data
                                 ELSE SubSeq(data, 1, fault.copied), mode)),
              !.touched = @ \cup {outputPath}]

opened(s, fault, digest, outputPath, mode, err) ==
    IF err # nil THEN failed(s, err)
    ELSE copied(casCall(s, fault, "GetFile"), fault, GetBlob(digest), outputPath, mode)

\* A faulty variant of Expose that opens the file without O_EXCL and writes
\* over a file that is there.
ExposeOverExisting(s, fault, digest, outputPath, isExecutable) ==
    IF s.err # nil THEN s
    ELSE opened(s, fault, digest, outputPath,
                IF isExecutable THEN ModeExecutable ELSE ModeRegular,
                entryError(s.fs, Dir(outputPath), "open"))

\* Expose: create the file exclusively with the mode is_executable selects,
\* then stream the blob into it.  The file stays behind when the CAS read
\* fails, holding what was copied until then.
Expose(s, fault, digest, outputPath, isExecutable) ==
    IF s.err # nil THEN s
    ELSE opened(s, fault, digest, outputPath,
                IF isExecutable THEN ModeExecutable ELSE ModeRegular,
                createError(s.fs, outputPath,
                            entryError(s.fs, Dir(outputPath), "open"), "open"))

\* ContentAddressableStorage.GetFile, which places a blob the way Expose does.
GetFile(s, fault, digest, outputPath, isExecutable) ==
    Expose(s, fault, digest, outputPath, isExecutable)

checkClean(joined, cleaned) ==
    IF joined # cleaned
       THEN [path |-> <<>>, err |-> errorString("Attempted to access non-clean path")]
       ELSE [path |-> joined, err |-> nil]

joinClean(joined) == checkClean(joined, Clean(joined))

joinPathSafe(elem) == joinClean(Join(elem))

(***************************************************************************)
(* prepareFilesystem and createInputDirectory.                             *)
(***************************************************************************)
RECURSIVE createInputDirectory(_, _, _, _)
RECURSIVE createInputFiles(_, _, _, _)
RECURSIVE createInputSubdirectories(_, _, _, _)

createInputFile(s, fault, file, childPath) ==
    IF childPath.err # nil THEN failed(s, childPath.err)
    ELSE GetFile(s, fault, file.Digest, childPath.path, file.IsExecutable)

\* for _, file := range directory.Files
createInputFiles(s, fault, files, base) ==
    IF s.err # nil \/ files = <<>> THEN s
    ELSE createInputFiles(
           createInputFile(s, fault, Head(files), joinPathSafe(<<base, Head(files).Name>>)),
           fault, Tail(files), base)

createInputSubdirectory(s, fault, directory, childPath) ==
    IF childPath.err # nil THEN failed(s, childPath.err)
    ELSE createInputDirectory(s, fault, directory.Digest, childPath.path)

\* for _, directory := range directory.Directories
createInputSubdirectories(s, fault, dirs, base) ==
    IF s.err # nil \/ dirs = <<>> THEN s
    ELSE createInputSubdirectories(
           createInputSubdirectory(s, fault, Head(dirs),
                                   joinPathSafe(<<base, Head(dirs).Name>>)),
           fault, Tail(dirs), base)

\* if len(directory.Symlinks) > 0
rejectSymlinks(s, directory) ==
    IF s.err = nil /\ Len(directory.Symlinks) > 0
       THEN failed(s, errorString(
              "Creating symlinks in the input root is not yet supported"))
       ELSE s

createInputDirectory(s, fault, digest, base) ==
    IF s.err # nil THEN s
    ELSE rejectSymlinks(
           createInputSubdirectories(
             createInputFiles(
               casCall(applied(s, Mkdir(s.fs, base)), fault, "GetDirectory"),
               fault, GetDirectory(digest).Files, base),
             fault, GetDirectory(digest).Directories, base),
           GetDirectory(digest))

createOutputParent(s, outputPath) ==
    IF outputPath.err # nil THEN failed(s, outputPath.err)
    ELSE applied(s, MkdirAll(s.fs, Dir(outputPath.path)))

RECURSIVE createOutputParents(_, _)
\* for _, outputFile := range command.OutputFiles: MkdirAll(path.Dir(outputPath))
createOutputParents(s, outputFiles) ==
    IF s.err # nil \/ outputFiles = <<>> THEN s
    ELSE createOutputParents(
           createOutputParent(s, joinPathSafe(<<pathBuildRoot, Head(outputFiles)>>)),
           Tail(outputFiles))

\* os.RemoveAll(pathTempRoot); return os.Mkdir(pathTempRoot, 0777)
createTempRoot(s, mk) ==
    IF s.err # nil THEN s ELSE [s EXCEPT !.fs = mk.fs, !.err = mk.err]

prepared(s) == createTempRoot(s, Mkdir(RemoveAll(s.fs, pathTempRoot), pathTempRoot))

prepareFilesystem(fs, fault, action, command) ==
    prepared(
      createOutputParents(
        createInputDirectory(stage(RemoveAll(fs, pathBuildRoot)), fault,
                             action.InputRootDigest, pathBuildRoot),
        command.OutputFiles))

(***************************************************************************)
(* The command.  A program is a deterministic function of the directory    *)
(* it runs in: it reads and writes below its working directory only.       *)
(***************************************************************************)
Programs == {"/bin/true", "/bin/cp", "/bin/gen"}

nameF == <<"f">>
nameS == <<"s">>
nameT == <<"t">>
nameU == <<"u">>
at(dir, name) == Join(<<dir, name>>)

exited(fs, status, stdout, stderr) ==
    [fs |-> fs, status |-> status, stdout |-> stdout, stderr |-> stderr]

\* /bin/cp a o
cp(fs, a, o) ==
    IF IsFile(fs, a) /\ ~Exists(fs, o)
       THEN exited(withNode(fs, o, fileNode(fs[a].data, ModeRegular)), 0, <<>>, <<>>)
       ELSE exited(fs, 1, <<>>, <<"cp: failed">>)

\* /bin/gen: creates the file o and the directory tree d (d/f, d/s/f, d/t/f
\* with the contents of d/s/f, and the empty d/u); fails when o or d exists.
gen(fs, o, d, s, t, u) ==
    IF Exists(fs, o) \/ Exists(fs, d)
       THEN exited(fs, 2, <<>>, <<"gen: exists">>)
       ELSE exited((o :> fileNode(world, ModeExecutable)) @@ (d :> dirNode)
                   @@ (at(d, nameF) :> fileNode(world, ModeRegular))
                   @@ (s :> dirNode) @@ (at(s, nameF) :> fileNode(hello, ModeRegular))
                   @@ (t :> dirNode) @@ (at(t, nameF) :> fileNode(hello, ModeRegular))
                   @@ (u :> dirNode)
                   @@ fs,
                   0, <<"gen: ok">>, <<>>)

\* What the program has done when it exits: the filesystem, its wait status
\* and what it wrote to stdout and stderr.
runProgram(fs, program, cwd) ==
    CASE program = "/bin/true" -> exited(fs, 0, <<>>, <<>>)
      [] program = "/bin/cp" -> cp(fs, at(cwd, nameA), at(cwd, nameO))
      [] program = "/bin/gen" ->
           gen(fs, at(cwd, nameO), at(cwd, nameD), at(cwd, <<"d", "/", "s">>),
               at(cwd, <<"d", "/", "t">>), at(cwd, <<"d", "/", "u">>))

\* cmd.Run starting the process: the lookup of the executable, the context,
\* the change into the working directory.
startError(fs, command, cwd, ctxDone) ==
    IF command.Arguments[1] \notin Programs THEN osError("ENOENT", "exec")
    ELSE IF ctxDone THEN contextCanceled
    ELSE IF ~IsDir(fs, cwd) THEN osError("ENOENT", "chdir")
    ELSE nil

started(r, command, cwd, ctxDone) ==
    IF r.err # nil THEN [fs |-> r.fs, cwd |-> cwd, err |-> r.err]
    ELSE [fs |-> r.fs, cwd |-> cwd, err |-> startError(r.fs, command, cwd, ctxDone)]

openStderr(r) == IF r.err # nil THEN r ELSE openTruncate(r.fs, pathStderr)

runIn(fs, command, workingDirectory, ctxDone) ==
    IF workingDirectory.err # nil
       THEN [fs |-> fs, cwd |-> <<>>, err |-> workingDirectory.err]
       ELSE started(openStderr(openTruncate(fs, pathStdout)), command,
                    workingDirectory.path, ctxDone)

\* runCommand up to the point where cmd.Run has started the process: the
\* working directory, the truncated output streams and the spawn error.
runCommand(fs, command, ctxDone) ==
    IF Len(command.Arguments) < 1
       THEN [fs |-> fs, cwd |-> <<>>,
             err |-> errorString("Insufficent number of command arguments")]
       ELSE runIn(fs, command,
                  joinPathSafe(<<pathBuildRoot, command.WorkingDirectory>>), ctxDone)

waited(ran) ==
    [fs |-> (pathStdout :> fileNode(ran.stdout, ran.fs[pathStdout].mode))
            @@ (pathStderr :> fileNode(ran.stderr, ran.fs[pathStderr].mode))
            @@ ran.fs,
     err |-> IF ran.status = 0 THEN nil ELSE exitError(ran.status)]

\* The process has exited by itself: cmd.Run returns nil or an ExitError.
processExit(fs, command, cwd) == waited(runProgram(fs, command.Arguments[1], cwd))

\* The process was killed because the context ended: WaitStatus.ExitStatus()
\* of a signalled process is -1.
processKilled(fs) == [fs |-> fs, err |-> exitError(-1)]

(***************************************************************************)
(* Harvesting: PutFile, uploadDirectory, uploadTree.                       *)
(***************************************************************************)
\* file.Mode() & 0111 != 0
IsExecutableMode(mode) ==
    (mode % 2 = 1) \/ ((mode \div 8) % 2 = 1) \/ ((mode \div 64) % 2 = 1)

put(s, digest, isExecutable) ==
    [s |-> s, digest |-> digest, isExecutable |-> isExecutable]

uploaded(c, node, path) ==
    IF c.err # nil THEN put(c, zeroDigest, FALSE)
    ELSE put([c EXCEPT !.touched = @ \cup {path}], DigestOfData(node.data),
             IsExecutableMode(node.mode))

\* PutFile: read and hash the file at path, upload it, return its descriptor.
PutFile(s, fault, path) ==
    IF s.err # nil THEN put(s, zeroDigest, FALSE)
    ELSE IF ~Exists(s.fs, path)
       THEN put(failed(s, osError("ENOENT", "open")), zeroDigest, FALSE)
    ELSE IF ~IsFile(s.fs, path)
       THEN put(refused(s, osError("EISDIR", "read")), zeroDigest, FALSE)
    ELSE uploaded(casCall(s, fault, "PutFile"), s.fs[path], path)

\* Byte order of the characters that occur in file names.
Alphabet ==
    <<".", "/", "a", "b", "d", "e", "f", "i", "l", "m", "o", "p", "r", "s", "t",
      "u", "x">>
Rank(c) == CHOOSE i \in 1..Len(Alphabet) : Alphabet[i] = c

RECURSIVE NameLess(_, _)
NameLess(a, b) ==
    IF b = <<>> THEN FALSE
    ELSE IF a = <<>> THEN TRUE
    ELSE IF Head(a) = Head(b) THEN NameLess(Tail(a), Tail(b))
    ELSE Rank(Head(a)) < Rank(Head(b))

First(paths) ==
    CHOOSE x \in paths : \A y \in paths \ {x} : NameLess(Base(x), Base(y))

RECURSIVE sortedFrom(_, _)
sortedFrom(first, paths) == <<first>> \o
    (IF paths = {first} THEN <<>>
     ELSE sortedFrom(First(paths \ {first}), paths \ {first}))

sortedByName(paths) == IF paths = {} THEN <<>> ELSE sortedFrom(First(paths), paths)

\* ioutil.ReadDir: the entries of a directory, sorted by file name.
ReadDir(fs, basePath) ==
    IF ~Exists(fs, basePath) THEN [files |-> <<>>, err |-> osError("ENOENT", "readdir")]
    ELSE IF ~IsDir(fs, basePath)
       THEN [files |-> <<>>, err |-> osError("ENOTDIR", "readdir")]
    ELSE [files |-> sortedByName(Entries(fs, basePath)), err |-> nil]

\* What uploadDirectory returns: the Directory (present is FALSE for nil), its
\* stage, and the children map (hash -> Directory) as it then stands.
upload(s, directory, present, children) ==
    [s |-> s, directory |-> directory, present |-> present, children |-> children]

RECURSIVE uploadDirectory(_, _, _, _, _)
RECURSIVE uploadEntries(_, _, _)

\* case 0: a regular file
withFile(u, name, p) ==
    IF p.s.err # nil THEN upload(p.s, dirEmpty, FALSE, u.children)
    ELSE upload(p.s,
                [u.directory EXCEPT !.Files = Append(@,
                   [Name |-> name, Digest |-> p.digest, IsExecutable |-> p.isExecutable])],
                TRUE, u.children)

\* A faulty variant of stored that does not put the child into the children
\* map.
storedNowhere(u, name, child, digest) ==
    upload(child.s,
           [u.directory EXCEPT !.Directories = Append(@, [Name |-> name, Digest |-> digest])],
           TRUE, child.children)

\* children[digest.Hash] = child, and the DirectoryNode of the child.
stored(u, name, child, digest) ==
    upload(child.s,
           [u.directory EXCEPT !.Directories = Append(@, [Name |-> name, Digest |-> digest])],
           TRUE, (digest.Hash :> child.directory) @@ child.children)

\* case os.ModeDir
withDirectory(u, name, child) ==
    IF child.s.err # nil THEN upload(child.s, dirEmpty, FALSE, u.children)
    ELSE stored(u, name, child, DigestFromMessage(child.directory))

\* case os.ModeSymlink
withSymlink(u, name, target) ==
    upload(u.s, [u.directory EXCEPT !.Symlinks = Append(@, SymlinkNode(name, target))],
           TRUE, u.children)

uploadEntry(u, fault, fullPath, node) ==
    CASE node.type = "file" -> withFile(u, Base(fullPath), PutFile(u.s, fault, fullPath))
      [] node.type = "dir" ->
           withDirectory(u, Base(fullPath),
                         uploadDirectory(u.s, fault, fullPath, FALSE, u.children))
      [] node.type = "symlink" -> withSymlink(u, Base(fullPath), node.data)
      [] OTHER -> upload(failed(u.s, errorString("unsupported file type")), dirEmpty,
                         FALSE, u.children)

\* for _, file := range files
uploadEntries(u, fault, files) ==
    IF u.s.err # nil \/ files = <<>> THEN u
    ELSE uploadEntries(uploadEntry(u, fault, Head(files), u.s.fs[Head(files)]), fault,
                       Tail(files))

readEntries(s, fault, permitNonExistent, children, rd) ==
    IF rd.err # nil
       THEN IF permitNonExistent /\ IsNotExist(rd.err)
               THEN upload(s, dirEmpty, FALSE, children)
               ELSE upload(failed(s, rd.err), dirEmpty, FALSE, children)
       ELSE uploadEntries(upload(s, dirEmpty, TRUE, children), fault, rd.files)

uploadDirectory(s, fault, basePath, permitNonExistent, children) ==
    readEntries([s EXCEPT !.touched = @ \cup
                    (IF IsDir(s.fs, basePath) THEN {basePath} ELSE {})],
                fault, permitNonExistent, children, ReadDir(s.fs, basePath))

\* The orders in which ranging over the children map can yield its values.
ChildOrders(children) ==
    {order \in [1..Cardinality(DOMAIN children) -> DOMAIN children] :
        \A i, j \in DOMAIN order : i # j => order[i] # order[j]}

treeDigest(c, tree) ==
    [s |-> c, present |-> c.err = nil,
     digest |-> IF c.err = nil THEN DigestFromMessage(tree) ELSE zeroDigest]

\* PutTree: serialize the Tree, hash it, upload it.
PutTree(s, fault, tree) == treeDigest(casCall(s, fault, "PutTree"), tree)

\* uploadTree once uploadDirectory has returned up, with the order in which the
\* children map is ranged over.  present is FALSE when the digest is nil.
bundled(up, fault, order) ==
    IF ~up.present \/ up.s.err # nil
       THEN [s |-> up.s, present |-> FALSE, digest |-> zeroDigest]
       ELSE PutTree(up.s, fault,
                    [Root |-> up.directory,
                     Children |-> [i \in DOMAIN order |-> up.children[order[i]]]])

uploadTree(s, fault, path, order) ==
    bundled(uploadDirectory(s, fault, path, TRUE, <<>>), fault, order)

\* The children map uploadTree ranges over.
childrenOf(s, fault, path) == uploadDirectory(s, fault, path, TRUE, <<>>).children

(***************************************************************************)
(* localBuildExecutor.Execute as a state machine.  One executor serves one *)
(* Execute at a time; the filesystem persists from one Execute to the next.*)
(***************************************************************************)
VARIABLES
    fs,          \* the local filesystem
    pc,          \* where Execute stands
    request,     \* the ExecuteRequest being served
    action,      \* the Action fetched for it
    command,     \* the Command fetched for it
    cwd,         \* the working directory of the spawned process
    exitCode,    \* Execute's local exitCode
    result,      \* the ActionResult under construction
    idx,         \* position in the output file / output directory loops
    response,    \* the ExecuteResponse returned
    cacheable,   \* the boolean returned with it
    ctxDone,     \* the caller's context has been cancelled
    touched,     \* request-derived paths this Execute acted on
    casFailure,  \* the error the CAS answered a call of this Execute with
    harvested,   \* this Execute has called PutFile or uploadTree
    proc,        \* the process of this Execute: none, failed, running, exited, killed
    waitStatus,  \* the exit status the process ended with (-1: by a signal)
    expired,     \* the action's timeout has passed while the command ran
    executes,    \* number of Execute calls so far
    seen         \* the results returned so far for commands that exited, per request

\* The action cache and the BlobAccess behind it.
VARIABLES
    store,       \* the blobs of the BlobAccess: (instance, hash) -> bytes
    calls,       \* per caller, the PutActionResult call it is in, if any
    completed,   \* per (instance, action digest), the PutActionResult calls that
                 \* have completed: how many, and the result of the last one
    returned     \* what GetActionResult returned, if called since a Put completed

executorVars ==
    <<fs, pc, request, action, command, cwd, exitCode, result, idx, response,
      cacheable, ctxDone, touched, casFailure, harvested, proc, waitStatus, expired,
      executes, seen>>

acVars == <<store, calls, completed, returned>>

vars == <<executorVars, acVars>>

MaxExecutes == 2

zeroRequest == [InstanceName |-> "", ActionDigest |-> zeroDigest]
zeroResponse == [status |-> nil, hasResult |-> FALSE, result |-> zeroResult]

\* convertErrorToExecuteResponse: a response that carries the error and no result.
convertErrorToExecuteResponse(err) ==
    [status |-> err, hasResult |-> FALSE, result |-> zeroResult]

\* status.Convert(err).Code(): the gRPC code a client sees for the error.
StatusCode(err) ==
    IF err = nil THEN "OK"
    ELSE IF err.kind \in StatusCodes \cup {"Canceled"} THEN err.kind
    ELSE "Unknown"

\* A fault for a stage that makes a single CAS call.
CallFaults == {f \in Faults : f.at <= 1 /\ f.copied = 0}
\* A fault for a stage that uploads: nothing is copied to the filesystem.
UploadFaults == {f \in Faults : f.copied = 0}

\* What a returned ActionResult is compared on across Executes.
Observed(req, how, res) ==
    [request |-> req, ended |-> how, outputFiles |-> res.OutputFiles,
     stdout |-> res.StdoutDigest, stderr |-> res.StderrDigest]

ExecutorInit ==
    /\ fs = (pathRoot :> dirNode)
    /\ pc = "idle"
    /\ request = zeroRequest
    /\ action = zeroAction
    /\ command = zeroCommand
    /\ cwd = <<>>
    /\ exitCode = 0
    /\ result = zeroResult
    /\ idx = 1
    /\ response = zeroResponse
    /\ cacheable = FALSE
    /\ ctxDone = FALSE
    /\ touched = {}
    /\ casFailure = nil
    /\ harvested = FALSE
    /\ proc = "none"
    /\ waitStatus = 0
    /\ expired = FALSE
    /\ executes = 0
    /\ seen = {}

\* The first error the CAS answered a call of this Execute with.
firstFailure(faulted) == IF casFailure # nil THEN casFailure ELSE faulted

\* return convertErrorToExecuteResponse(err), false
ReturnError(err) ==
    /\ response' = convertErrorToExecuteResponse(err)
    /\ cacheable' = FALSE
    /\ pc' = "done"

\* Execute goes on to its next stage.
Continue(next) ==
    /\ pc' = next
    /\ UNCHANGED <<response, cacheable>>

\* A faulty variant of exitCodeOf that returns an ExitError like any other
\* error.
exitCodeOfExitIsError(err) == [exitCode |-> 0, err |-> err]

\* A faulty variant of exitCodeOf that turns every error into an exit code.
exitCodeOfAnyError(err) ==
    IF err = nil THEN [exitCode |-> 0, err |-> nil]
    ELSE IF err.kind = "ExitError" THEN [exitCode |-> err.status, err |-> nil]
    ELSE [exitCode |-> 1, err |-> nil]

\* A faulty variant of exitCodeOf that takes the exit status only of a process
\* that exited, and leaves the exit code at 0 for one ended by a signal.
exitCodeOfExitedOnly(err) ==
    IF err = nil THEN [exitCode |-> 0, err |-> nil]
    ELSE IF err.kind = "ExitError"
            THEN [exitCode |-> IF err.status < 0 THEN 0 ELSE err.status, err |-> nil]
    ELSE [exitCode |-> 0, err |-> err]

\* The error handling around runCommand: an ExitError becomes the exit code,
\* any other error ends the Execute.
exitCodeOf(err) ==
    IF err = nil THEN [exitCode |-> 0, err |-> nil]
    ELSE IF err.kind = "ExitError" THEN [exitCode |-> err.status, err |-> nil]
    ELSE [exitCode |-> 0, err |-> err]

\* Execute is called: GetAction.
FetchAction ==
    /\ pc \in {"idle", "done"}
    /\ executes < MaxExecutes
    /\ \E req \in Requests, fault \in CallFaults :
         \E c \in {casCall(stage(fs), fault, "GetAction")} :
             /\ request' = req
             /\ casFailure' = c.faulted
             /\ IF c.err # nil
                   THEN /\ action' = zeroAction
                        /\ ReturnError(c.err)
                   ELSE /\ action' = GetAction(req.ActionDigest)
                        /\ response' = zeroResponse
                        /\ cacheable' = FALSE
                        /\ pc' = "get_command"
    /\ executes' = executes + 1
    /\ command' = zeroCommand
    /\ cwd' = <<>>
    /\ exitCode' = 0
    /\ result' = zeroResult
    /\ idx' = 1
    /\ ctxDone' = FALSE
    /\ touched' = {}
    /\ harvested' = FALSE
    /\ proc' = "none"
    /\ waitStatus' = 0
    /\ expired' = FALSE
    /\ UNCHANGED <<fs, seen>>
    /\ UNCHANGED acVars

\* GetCommand
FetchCommand ==
    /\ pc = "get_command"
    /\ \E fault \in CallFaults :
         \E c \in {casCall(stage(fs), fault, "GetCommand")} :
             /\ casFailure' = firstFailure(c.faulted)
             /\ IF c.err # nil
                   THEN /\ ReturnError(c.err)
                        /\ UNCHANGED command
                   ELSE /\ command' = GetCommand(action.CommandDigest)
                        /\ Continue("prepare_filesystem")
    /\ UNCHANGED <<fs, request, action, cwd, exitCode, result, idx, ctxDone,
                   touched, harvested, proc, waitStatus, executes, seen>>
    /\ UNCHANGED expired
    /\ UNCHANGED acVars

\* A faulty variant of PrepareFilesystem that goes on to run the command when
\* prepareFilesystem has returned an error.
PrepareFilesystemUnchecked ==
    /\ pc = "prepare_filesystem"
    /\ \E fault \in Faults :
         \E s \in {prepareFilesystem(fs, fault, action, command)} :
             /\ fs' = s.fs
             /\ touched' = touched \cup s.touched
             /\ casFailure' = firstFailure(s.faulted)
             /\ Continue("run_command")
    /\ UNCHANGED <<request, action, command, cwd, exitCode, result, idx, ctxDone,
                   harvested, proc, waitStatus, executes, seen>>
    /\ UNCHANGED expired
    /\ UNCHANGED acVars

\* prepareFilesystem
PrepareFilesystem ==
    /\ pc = "prepare_filesystem"
    /\ \E fault \in Faults :
         \E s \in {prepareFilesystem(fs, fault, action, command)} :
             /\ fs' = s.fs
             /\ touched' = touched \cup s.touched
             /\ casFailure' = firstFailure(s.faulted)
             /\ IF s.err # nil THEN ReturnError(s.err) ELSE Continue("run_command")
    /\ UNCHANGED <<request, action, command, cwd, exitCode, result, idx, ctxDone,
                   harvested, proc, waitStatus, executes, seen>>
    /\ UNCHANGED expired
    /\ UNCHANGED acVars

\* runCommand until the process runs (or could not be started).
SpawnCommand ==
    /\ pc = "run_command"
    /\ \E r \in {runCommand(fs, command, ctxDone)} :
         \E e \in {exitCodeOf(r.err)} :
           /\ fs' = r.fs
           /\ proc' = IF r.err = nil THEN "running" ELSE "failed"
           /\ IF e.err # nil
                 THEN /\ ReturnError(e.err)
                      /\ UNCHANGED <<cwd, touched>>
                 ELSE /\ Continue("running")
                      /\ cwd' = r.cwd
                      /\ touched' = touched \cup {r.cwd}
    /\ UNCHANGED <<request, action, command, exitCode, result, idx, ctxDone,
                   casFailure, harvested, waitStatus, executes, seen>>
    /\ UNCHANGED expired
    /\ UNCHANGED acVars

\* The caller cancels the context around the time the command runs.
CancelContext ==
    /\ pc \in {"run_command", "running"}
    /\ ~ctxDone
    /\ ctxDone' = TRUE
    /\ UNCHANGED <<fs, pc, request, action, command, cwd, exitCode, result, idx,
                   response, cacheable, touched, casFailure, harvested, proc, waitStatus,
                   executes, seen>>
    /\ UNCHANGED expired
    /\ UNCHANGED acVars

\* The action's timeout passes while the command runs.  Execute never reads
\* action.Timeout and runs the command under the caller's context alone, so
\* nothing else happens then.
TimeoutExpires ==
    /\ pc = "running"
    /\ action.Timeout > 0
    /\ ~expired
    /\ expired' = TRUE
    /\ UNCHANGED <<fs, pc, request, action, command, cwd, exitCode, result, idx,
                   response, cacheable, ctxDone, touched, casFailure, harvested, proc,
                   waitStatus, executes, seen>>
    /\ UNCHANGED acVars

\* cmd.Run has returned r: the exit code, or the end of the Execute.
Waited(r, how) ==
    \E e \in {exitCodeOf(r.err)} :
       /\ fs' = r.fs
       /\ proc' = how
       /\ waitStatus' = r.err.status
       /\ exitCode' = e.exitCode
       /\ IF e.err # nil THEN ReturnError(e.err) ELSE Continue("upload_stdout")
       /\ UNCHANGED <<request, action, command, cwd, result, idx, ctxDone, touched,
                      casFailure, harvested, executes, seen>>

\* cmd.Run returns after the process has exited by itself.
CommandExit ==
    /\ pc = "running"
    /\ Waited(processExit(fs, command, cwd), "exited")
    /\ UNCHANGED expired
    /\ UNCHANGED acVars

\* cmd.Run returns after the cancelled context has killed the process.
CommandKilled ==
    /\ pc = "running"
    /\ ctxDone
    /\ Waited(processKilled(fs), "killed")
    /\ UNCHANGED expired
    /\ UNCHANGED acVars

\* PutFile(pathStdout)
UploadStdout ==
    /\ pc = "upload_stdout"
    /\ \E fault \in CallFaults :
         \E p \in {PutFile(stage(fs), fault, pathStdout)} :
             /\ casFailure' = firstFailure(p.s.faulted)
             /\ IF p.s.err # nil
                   THEN /\ ReturnError(p.s.err)
                        /\ UNCHANGED result
                   ELSE /\ result' = [result EXCEPT !.StdoutDigest = p.digest]
                        /\ Continue("upload_stderr")
    /\ harvested' = TRUE
    /\ UNCHANGED <<fs, request, action, command, cwd, exitCode, idx, ctxDone,
                   touched, proc, waitStatus, executes, seen>>
    /\ UNCHANGED expired
    /\ UNCHANGED acVars

\* PutFile(pathStderr), then the response with the exit code and both digests.
UploadStderr ==
    /\ pc = "upload_stderr"
    /\ \E fault \in CallFaults :
         \E p \in {PutFile(stage(fs), fault, pathStderr)} :
             /\ casFailure' = firstFailure(p.s.faulted)
             /\ IF p.s.err # nil
                   THEN /\ ReturnError(p.s.err)
                        /\ UNCHANGED result
                   ELSE /\ result' = [result EXCEPT !.ExitCode = exitCode,
                                                    !.StderrDigest = p.digest]
                        /\ Continue("upload_output_files")
    /\ UNCHANGED <<fs, request, action, command, cwd, exitCode, idx, ctxDone,
                   touched, harvested, proc, waitStatus, executes, seen>>
    /\ UNCHANGED expired
    /\ UNCHANGED acVars

\* A faulty variant of OutputFileUploaded that skips the output file on any
\* error of PutFile, not just when the file does not exist.
OutputFileSkippedOnError(outputFile, p) ==
    /\ casFailure' = firstFailure(p.s.faulted)
    /\ touched' = touched \cup p.s.touched
    /\ idx' = idx + 1
    /\ result' =
         IF p.s.err # nil THEN result
         ELSE [result EXCEPT !.OutputFiles = Append(@,
                 [Path |-> outputFile, Digest |-> p.digest,
                  IsExecutable |-> p.isExecutable])]
    /\ Continue(pc)

\* The body of the output file loop once PutFile has returned p.
OutputFileUploaded(outputFile, p) ==
    /\ casFailure' = firstFailure(p.s.faulted)
    /\ touched' = touched \cup p.s.touched
    /\ IF p.s.err # nil /\ ~IsNotExist(p.s.err)
          THEN /\ ReturnError(p.s.err)
               /\ UNCHANGED <<result, idx>>
          ELSE /\ idx' = idx + 1
               /\ result' =
                    IF p.s.err # nil THEN result
                    ELSE [result EXCEPT !.OutputFiles = Append(@,
                            [Path |-> outputFile, Digest |-> p.digest,
                             IsExecutable |-> p.isExecutable])]
               /\ Continue(pc)

\* One iteration of: for _, outputFile := range command.OutputFiles
UploadOutputFile ==
    /\ pc = "upload_output_files"
    /\ idx <= Len(command.OutputFiles)
    /\ \E fault \in CallFaults :
         \E outputPath \in {joinPathSafe(<<pathBuildRoot, command.OutputFiles[idx]>>)} :
             IF outputPath.err # nil
                THEN /\ ReturnError(outputPath.err)
                     /\ UNCHANGED <<result, idx, touched, casFailure>>
                ELSE \E p \in {PutFile(stage(fs), fault, outputPath.path)} :
                        OutputFileUploaded(command.OutputFiles[idx], p)
    /\ UNCHANGED <<fs, request, action, command, cwd, exitCode, ctxDone, harvested,
                   proc, waitStatus, executes, seen>>
    /\ UNCHANGED expired
    /\ UNCHANGED acVars

\* The output file loop ends.
OutputFilesDone ==
    /\ pc = "upload_output_files"
    /\ idx > Len(command.OutputFiles)
    /\ pc' = "upload_output_directories"
    /\ idx' = 1
    /\ UNCHANGED <<fs, request, action, command, cwd, exitCode, result, response,
                   cacheable, ctxDone, touched, casFailure, harvested, proc, waitStatus,
                   executes, seen>>
    /\ UNCHANGED expired
    /\ UNCHANGED acVars

\* The body of the output directory loop once uploadTree has returned tree.
OutputDirectoryUploaded(outputDirectory, tree) ==
    /\ casFailure' = firstFailure(tree.s.faulted)
    /\ touched' = touched \cup tree.s.touched
    /\ IF tree.s.err # nil
          THEN /\ ReturnError(tree.s.err)
               /\ UNCHANGED <<result, idx>>
          ELSE /\ idx' = idx + 1
               /\ result' =
                    IF ~tree.present THEN result
                    ELSE [result EXCEPT !.OutputDirectories = Append(@,
                            [Path |-> outputDirectory, TreeDigest |-> tree.digest])]
               /\ Continue(pc)

\* One iteration of: for _, outputDirectory := range command.OutputDirectories
UploadOutputDirectory ==
    /\ pc = "upload_output_directories"
    /\ idx <= Len(command.OutputDirectories)
    /\ \E fault \in UploadFaults :
         \E outputPath \in {joinPathSafe(<<pathBuildRoot, command.OutputDirectories[idx]>>)} :
             IF outputPath.err # nil
                THEN /\ ReturnError(outputPath.err)
                     /\ UNCHANGED <<result, idx, touched, casFailure>>
                ELSE \E order \in ChildOrders(childrenOf(stage(fs), fault, outputPath.path)) :
                       \E tree \in {uploadTree(stage(fs), fault, outputPath.path, order)} :
                          OutputDirectoryUploaded(command.OutputDirectories[idx], tree)
    /\ UNCHANGED <<fs, request, action, command, cwd, exitCode, ctxDone, harvested,
                   proc, waitStatus, executes, seen>>
    /\ UNCHANGED expired
    /\ UNCHANGED acVars

\* A faulty variant of isCacheable that forgets the exit code.
isCacheableWhateverExitCode(act, res) == ~act.DoNotCache

\* !action.DoNotCache && response.Result.ExitCode == 0
isCacheable(act, res) == ~act.DoNotCache /\ res.ExitCode = 0

\* return response, !action.DoNotCache && response.Result.ExitCode == 0
ReturnResult ==
    /\ pc = "upload_output_directories"
    /\ idx > Len(command.OutputDirectories)
    /\ response' = [status |-> nil, hasResult |-> TRUE, result |-> result]
    /\ cacheable' = isCacheable(action, result)
    /\ seen' = IF proc = "exited" THEN seen \cup {Observed(request, proc, result)}
                ELSE seen
    /\ pc' = "done"
    /\ UNCHANGED <<fs, request, action, command, cwd, exitCode, result, idx, ctxDone,
                   touched, casFailure, harvested, proc, waitStatus, executes>>
    /\ UNCHANGED expired
    /\ UNCHANGED acVars

Next ==
    \/ FetchAction
    \/ FetchCommand
    \/ PrepareFilesystem
    \/ SpawnCommand
    \/ CancelContext
    \/ TimeoutExpires
    \/ CommandExit
    \/ CommandKilled
    \/ UploadStdout
    \/ UploadStderr
    \/ UploadOutputFile
    \/ OutputFilesDone
    \/ UploadOutputDirectory
    \/ ReturnResult

(***************************************************************************)
(* The action cache: blobAccessActionCache over a BlobAccess.  The store   *)
(* keeps whole blobs under (instance, hash); a Put reads its stream into a *)
(* buffer of its own and replaces the blob in one step, under the lock of  *)
(* the store, which is when the call completes.                            *)
(***************************************************************************)
\* proto.Marshal of an ActionResult: the fields that are set, by field number;
\* a field at its zero value is not written.
fieldsOf(num, values) == [i \in DOMAIN values |-> [num |-> num, val |-> values[i]]]
Marshal(res) ==
    fieldsOf(2, res.OutputFiles)
    \o fieldsOf(3, res.OutputDirectories)
    \o (IF res.ExitCode # 0 THEN fieldsOf(4, <<res.ExitCode>>) ELSE <<>>)
    \o (IF res.StdoutDigest # zeroDigest THEN fieldsOf(6, <<res.StdoutDigest>>) ELSE <<>>)
    \o (IF res.StderrDigest # zeroDigest THEN fieldsOf(8, <<res.StderrDigest>>) ELSE <<>>)

\* One field read into the message: a repeated field gains an element, any
\* other field is set.
merged(msg, f) ==
    CASE f.num = 2 -> [msg EXCEPT !.OutputFiles = Append(@, f.val)]
      [] f.num = 3 -> [msg EXCEPT !.OutputDirectories = Append(@, f.val)]
      [] f.num = 4 -> [msg EXCEPT !.ExitCode = f.val]
      [] f.num = 6 -> [msg EXCEPT !.StdoutDigest = f.val]
      [] f.num = 8 -> [msg EXCEPT !.StderrDigest = f.val]
      [] OTHER -> msg

RECURSIVE unmarshalInto(_, _)
unmarshalInto(msg, data) ==
    IF data = <<>> THEN msg ELSE unmarshalInto(merged(msg, Head(data)), Tail(data))

\* proto.Unmarshal(data, &actionResult)
Unmarshal(data) == unmarshalInto(zeroResult, data)

\* The key a BlobAccess keeps a blob under.
blobKey(instance, digest) == [instance |-> instance, hash |-> digest.Hash]

\* BlobAccess.Get followed by ioutil.ReadAll of the reader it returns.
blobGet(blobs, instance, digest) ==
    IF blobKey(instance, digest) \in DOMAIN blobs
       THEN [data |-> blobs[blobKey(instance, digest)], err |-> nil]
       ELSE [data |-> <<>>, err |-> casError("NotFound", "Get")]

\* BlobAccess.Put once the whole stream has been read.
blobPut(blobs, instance, digest, data) ==
    (blobKey(instance, digest) :> data) @@ blobs

\* GetActionResult that drops the error of reading the blob and decodes the
\* bytes it got.
decodedWhateverError(r) == [result |-> Unmarshal(r.data), err |-> nil]

\* GetActionResult once the blob has been read.
decoded(r) ==
    IF r.err # nil THEN [result |-> zeroResult, err |-> r.err]
    ELSE [result |-> Unmarshal(r.data), err |-> nil]

GetActionResult(blobs, instance, digest) == decoded(blobGet(blobs, instance, digest))

\* The BlobAccess.Put call that PutActionResult makes.
putCall(instance, digest, data) ==
    [instance |-> instance, digest |-> digest, sizeBytes |-> Len(data), data |-> data]

\* A faulty variant of PutActionResult that stores the result under the
\* digest of its own bytes.
PutActionResultByContent(instance, digest, res) ==
    putCall(instance, DigestOfData(Marshal(res)), Marshal(res))

PutActionResult(instance, digest, res) == putCall(instance, digest, Marshal(res))

ACInstances == {"main", "other"}
ACDigests ==
    {DigestFromMessage(Action(cmdTrue, dirEmpty, FALSE)),
     DigestFromMessage(Action(cmdCp, dirA, FALSE))}
resultFailed ==
    [zeroResult EXCEPT !.ExitCode = 1, !.StderrDigest = DigestOfData(world)]
resultBuilt ==
    [zeroResult EXCEPT
        !.OutputFiles = <<[Path |-> nameO, Digest |-> DigestOfData(hello),
                           IsExecutable |-> FALSE]>>,
        !.StdoutDigest = DigestOfData(hello)]
ACResults == {zeroResult, resultFailed, resultBuilt}

Callers == {1, 2}
MaxPuts == 3

noCall == [active |-> FALSE, instance |-> "", digest |-> zeroDigest,
           result |-> zeroResult, put |-> putCall("", zeroDigest, <<>>), buffer |-> <<>>]
noPut == [count |-> 0, result |-> zeroResult]
noReturn == [called |-> FALSE, instance |-> "", digest |-> zeroDigest,
             result |-> zeroResult, err |-> nil, last |-> noPut]

\* The PutActionResult calls for one (instance, action digest).
putKey(instance, digest) == [instance |-> instance, digest |-> digest]
NumCompleted ==
    LET RECURSIVE sum(_)
        sum(keys) == IF keys = {} THEN 0
                     ELSE LET k == CHOOSE k \in keys : TRUE
                          IN  completed[k].count + sum(keys \ {k})
    IN  sum(DOMAIN completed)

ACInit ==
    /\ store = <<>>
    /\ calls = [c \in Callers |-> noCall]
    /\ completed = [k \in {putKey(i, d) : i \in ACInstances, d \in ACDigests} |-> noPut]
    /\ returned = noReturn

InFlight == {c \in Callers : calls[c].active}

\* A caller calls PutActionResult, which marshals the result and calls Put.
PutActionResultCalled ==
    /\ NumCompleted + Cardinality(InFlight) < MaxPuts
    /\ \E c \in Callers \ InFlight, instance \in ACInstances, digest \in ACDigests,
          res \in ACResults :
          calls' = [calls EXCEPT ![c] =
                      [active |-> TRUE, instance |-> instance, digest |-> digest,
                       result |-> res,
                       put |-> PutActionResult(instance, digest, res),
                       buffer |-> <<>>]]
    /\ UNCHANGED <<store, completed, returned>>
    /\ UNCHANGED executorVars

\* Put reads the next piece of its stream.
PutReadsStream ==
    /\ \E c \in InFlight :
          /\ Len(calls[c].buffer) < calls[c].put.sizeBytes
          /\ calls' = [calls EXCEPT ![c].buffer =
                          Append(@, calls[c].put.data[Len(@) + 1])]
    /\ UNCHANGED <<store, completed, returned>>
    /\ UNCHANGED executorVars

\* Put has read its stream to the end: it stores the blob and the
\* PutActionResult call completes.
PutCompletes ==
    /\ \E c \in InFlight :
          /\ Len(calls[c].buffer) = calls[c].put.sizeBytes
          /\ store' = blobPut(store, calls[c].put.instance, calls[c].put.digest,
                              calls[c].buffer)
          /\ completed' = [completed EXCEPT
                             ![putKey(calls[c].instance, calls[c].digest)] =
                                 [count |-> @.count + 1, result |-> calls[c].result]]
          /\ calls' = [calls EXCEPT ![c] = noCall]
    /\ returned' = noReturn
    /\ UNCHANGED executorVars

\* A caller calls GetActionResult, which returns.
GetActionResultCalled ==
    /\ \E instance \in ACInstances, digest \in ACDigests :
          \E r \in {GetActionResult(store, instance, digest)} :
             returned' = [called |-> TRUE, instance |-> instance, digest |-> digest,
                          result |-> r.result, err |-> r.err,
                          last |-> completed[putKey(instance, digest)]]
    /\ UNCHANGED <<store, calls, completed>>
    /\ UNCHANGED executorVars

NextAC ==
    \/ PutActionResultCalled
    \/ PutReadsStream
    \/ PutCompletes
    \/ GetActionResultCalled

Init == ExecutorInit /\ ACInit

Spec == Init /\ [][Next]_vars

\* What in Execute cannot be put off for ever: the context's goroutine kills
\* the process of a cancelled context and cmd.Run returns; each CAS call of
\* the harvest returns; the loops and the return are plain code.  The
\* condition on UploadOutputDirectory is weak fairness written out, with the
\* guard of the action for ENABLED.
Fairness ==
    /\ WF_vars(CommandKilled)
    /\ WF_vars(UploadStdout)
    /\ WF_vars(UploadStderr)
    /\ WF_vars(UploadOutputFile)
    /\ WF_vars(OutputFilesDone)
    /\ \/ []<>~(pc = "upload_output_directories" /\ idx <= Len(command.OutputDirectories))
       \/ []<><<UploadOutputDirectory>>_vars
    /\ WF_vars(ReturnResult)

SpecLive == Spec /\ Fairness

SpecAC == Init /\ [][NextAC]_vars

(***************************************************************************)
(* Properties of Execute.                                                  *)
(***************************************************************************)
\* name has a ".." component.
HasDotDot(name) ==
    \E i \in 1..(Len(name) - 1) :
        /\ name[i] = "." /\ name[i + 1] = "."
        /\ (i = 1 \/ name[i - 1] = "/")
        /\ (i + 1 = Len(name) \/ name[i + 2] = "/")

RECURSIVE NamesIn(_)
\* The file and directory names of the Merkle tree rooted at directory dir.
NamesIn(dir) ==
    {dir.Files[i].Name : i \in 1..Len(dir.Files)}
    \cup {dir.Directories[i].Name : i \in 1..Len(dir.Directories)}
    \cup UNION {NamesIn(GetDirectory(dir.Directories[i].Digest)) :
                   i \in 1..Len(dir.Directories)}

\* Every name a request brings in: input tree, working directory, outputs.
RequestNames(act, cmd) ==
    NamesIn(GetDirectory(act.InputRootDigest))
    \cup {cmd.WorkingDirectory}
    \cup {cmd.OutputFiles[i] : i \in 1..Len(cmd.OutputFiles)}
    \cup {cmd.OutputDirectories[i] : i \in 1..Len(cmd.OutputDirectories)}

\* The action and command of the running Execute have been fetched and one
\* of their names has a ".." component.
DotDotRequested ==
    /\ command # zeroCommand
    /\ \E name \in RequestNames(action, command) : HasDotDot(name)

\* C1: at the return of Execute the cacheable flag is true exactly when an
\* ActionResult is returned, DoNotCache is false and the exit code is 0; on
\* an error return it is false.
C1_CacheableIffCleanResult ==
    pc = "done" =>
        /\ cacheable <=> (response.hasResult /\ ~action.DoNotCache
                             /\ response.result.ExitCode = 0)
        /\ (response.status # nil => ~cacheable)

\* Execute has returned a cacheable result, and has returned a result that is
\* not cacheable because of DoNotCache alone.
C1_Witness ==
    /\ pc = "done" /\ cacheable /\ response.hasResult
    /\ response.result.OutputFiles # <<>>

C1_WitnessDoNotCache ==
    /\ pc = "done" /\ ~cacheable /\ response.hasResult
    /\ action.DoNotCache /\ response.result.ExitCode = 0

\* C2: an Execute whose request holds a name with a ".." component, and
\* that no CAS failure or cancellation ends first, returns no ActionResult
\* but an InvalidArgument error.
C2_DotDotIsInvalidArgument ==
    (pc = "done" /\ DotDotRequested /\ casFailure = nil /\ ~ctxDone) =>
        /\ ~response.hasResult
        /\ StatusCode(response.status) = "InvalidArgument"

\* C3: every path Execute creates, opens, reads or runs in lies inside the
\* build root (or is the build root, the temp root or a stream file).
C3_PathsInsideBuildRoot ==
    \A p \in touched :
        \/ Within(p, pathBuildRoot)
        \/ p \in {pathTempRoot, pathStdout, pathStderr}

\* C4: once a CAS call of an Execute has failed (a declared output file
\* that does not exist is no failure), the Execute has returned: its
\* response is that very error with no ActionResult in it, and cacheable is
\* false.
C4_CasErrorReturnedUnchanged ==
    casFailure # nil =>
        /\ pc = "done"
        /\ response.status = casFailure
        /\ ~response.hasResult
        /\ response.result = zeroResult
        /\ ~cacheable

\* A CAS upload fails after the command ran and part of the result exists.
C4_Witness ==
    /\ pc = "done" /\ IsCasError(casFailure)
    /\ casFailure.op = "PutTree"
    /\ result.OutputFiles # <<>>

C4_WitnessGetFile ==
    /\ pc = "done" /\ IsCasError(casFailure) /\ casFailure.op = "GetFile"
    /\ Exists(fs, pathBuildRoot)

\* The stages of Execute that harvest what the command left.
HarvestStages ==
    {"upload_stdout", "upload_stderr", "upload_output_files",
     "upload_output_directories"}

\* C5 as stated: when the command has spawned and exited with a non-zero
\* code c, Execute returns an ActionResult with exit_code c and cacheable false
\* rather than an executor error.
C5_NonZeroExitReturnsResult ==
    (pc = "done" /\ proc = "exited" /\ waitStatus # 0) =>
        /\ response.status = nil
        /\ response.hasResult
        /\ response.result.ExitCode = waitStatus
        /\ ~cacheable

\* C5 amended: a non-zero exit code c is never itself reported as an executor
\* error: Execute goes on to harvest, and it returns an ActionResult with
\* exit_code c and cacheable false unless a harvesting step fails, whose
\* error it then returns with cacheable false.
C5_NonZeroExitIsHarvested ==
    (proc = "exited" /\ waitStatus # 0) =>
        /\ pc \in HarvestStages \cup {"done"}
        /\ exitCode = waitStatus
        /\ pc = "done" =>
              /\ harvested
              /\ ~cacheable
              /\ response.status.kind # "ExitError"
              /\ response.hasResult <=> response.status = nil
              /\ response.hasResult => response.result.ExitCode = waitStatus
              /\ ~response.hasResult =>
                    response.status.op \in {"PutFile", "PutTree", "read", "readdir"}

\* The command exited non-zero and Execute returned its ActionResult.
C5_Witness ==
    /\ pc = "done" /\ proc = "exited" /\ waitStatus # 0
    /\ response.hasResult /\ response.result.ExitCode = waitStatus
    /\ response.result.StderrDigest # DigestOfData(<<>>)

\* The command exited non-zero and an upload of the harvest failed.
C5_WitnessHarvestFails ==
    /\ pc = "done" /\ proc = "exited" /\ waitStatus # 0
    /\ ~response.hasResult /\ response.status.op = "PutFile"

\* C6: when the command cannot be spawned, Execute returns at once: an error
\* response, no ActionResult, nothing harvested, cacheable false.
C6_SpawnFailureIsError ==
    proc = "failed" =>
        /\ pc = "done"
        /\ response.status # nil
        /\ response.status.kind # "ExitError"
        /\ ~response.hasResult
        /\ response.result = zeroResult
        /\ ~harvested
        /\ ~cacheable

\* The binary of the command does not exist and Execute has returned.
C6_Witness ==
    /\ pc = "done" /\ proc = "failed"
    /\ command.Arguments = <<"/nonexistent">>
    /\ response.status.kind = "ENOENT"

\* The declared path name, resolved from the build root, stays inside the
\* build root and is there now, as a node of the given type.
ExistsInBuildRoot(name, type) ==
    /\ Within(Join(<<pathBuildRoot, name>>), pathBuildRoot)
    /\ Exists(fs, Join(<<pathBuildRoot, name>>))
    /\ fs[Join(<<pathBuildRoot, name>>)].type = type

IsOutputFile(name) == ExistsInBuildRoot(name, "file")
IsOutputDirectory(name) == ExistsInBuildRoot(name, "dir")
PathsOf(outputs) == [i \in DOMAIN outputs |-> outputs[i].Path]

\* C7: a returned ActionResult lists exactly the declared output files that
\* exist in the build root as files and the declared output directories
\* that exist there as directories, each once, in declaration order.
C7_OutputsAreDeclaredAndPresent ==
    (pc = "done" /\ response.hasResult) =>
        /\ PathsOf(response.result.OutputFiles)
              = SelectSeq(command.OutputFiles, IsOutputFile)
        /\ PathsOf(response.result.OutputDirectories)
              = SelectSeq(command.OutputDirectories, IsOutputDirectory)

RECURSIVE TreeAt(_, _)
\* What the Merkle tree rooted at directory dir puts at and below base.
TreeAt(dir, base) ==
    {[path |-> base, node |-> dirNode]}
    \cup {[path |-> Join(<<base, dir.Files[i].Name>>),
           node |-> fileNode(GetBlob(dir.Files[i].Digest),
                             IF dir.Files[i].IsExecutable
                                THEN ModeExecutable ELSE ModeRegular)] :
            i \in 1..Len(dir.Files)}
    \cup UNION {TreeAt(GetDirectory(dir.Directories[i].Digest),
                       Join(<<base, dir.Directories[i].Name>>)) :
                   i \in 1..Len(dir.Directories)}

\* q is the parent directory of a declared output file, or above it.
IsOutputParent(q) ==
    \E i \in 1..Len(command.OutputFiles) :
        Within(Dir(Join(<<pathBuildRoot, command.OutputFiles[i]>>)), q)

\* C8: while the command runs, the build root holds the input Merkle tree,
\* every node of it and nothing else but the parent directories of the
\* declared output files, and the temp root exists and is empty.
C8_BuildRootIsInputTree ==
    (pc = "running" /\ proc = "running") =>
        /\ \A e \in TreeAt(GetDirectory(action.InputRootDigest), pathBuildRoot) :
              /\ Within(e.path, pathBuildRoot)
              /\ Exists(fs, e.path)
              /\ fs[e.path] = e.node
        /\ \A q \in Subtree(fs, pathBuildRoot) :
              \/ \E e \in TreeAt(GetDirectory(action.InputRootDigest), pathBuildRoot) :
                    e.path = q
              \/ IsDir(fs, q) /\ IsOutputParent(q)
        /\ IsDir(fs, pathTempRoot)
        /\ Subtree(fs, pathTempRoot) = {pathTempRoot}

\* C9: two Executes of the same request whose command ran to its exit return
\* the same output files, stdout digest and stderr digest.
C9_SameRequestSameResult ==
    \A o1, o2 \in seen :
        (o1.request = o2.request /\ o1.ended = "exited" /\ o2.ended = "exited")
            => o1 = o2

\* C12: an Execute that reaches runCommand with a command whose argument
\* vector is empty fails with InvalidArgument: no process is spawned, no
\* ActionResult is returned and cacheable is false.
C12_EmptyArgumentsIsInvalidArgument ==
    (pc = "done" /\ proc = "failed" /\ Len(command.Arguments) = 0) =>
        /\ StatusCode(response.status) = "InvalidArgument"
        /\ ~response.hasResult
        /\ ~cacheable
        /\ ~harvested

RECURSIVE Reachable(_)
\* The Directory messages reachable from a Directory, itself included.
Reachable(directory) ==
    {directory} \cup
    UNION {Reachable(GetDirectory(directory.Directories[i].Digest)) :
             i \in 1..Len(directory.Directories)}

\* C13: an Execute that materializes an input root from which a Directory
\* with a SymlinkNode is reachable, the CAS answering every call, fails with
\* Unimplemented; the command is not run and no ActionResult is returned.
C13_InputSymlinkIsUnimplemented ==
    (/\ pc = "done" /\ command # zeroCommand /\ casFailure = nil
     /\ \E d \in Reachable(GetDirectory(action.InputRootDigest)) :
           Len(d.Symlinks) > 0) =>
        /\ StatusCode(response.status) = "Unimplemented"
        /\ proc = "none"
        /\ ~response.hasResult
        /\ ~cacheable
        /\ ~harvested

\* C14: when the action's timeout passes while the command is running, the
\* command is terminated: cmd.Run returns for a killed process, with the exit
\* code of one, as it does after the caller has cancelled the context.
C14_TimeoutKillsCommand ==
    (expired /\ pc # "running") => (proc = "killed" /\ exitCode = -1)

\* The context was cancelled while the process of this Execute was running,
\* and cmd.Run has returned.
CancelledWhileRunning == ctxDone /\ proc \in {"exited", "killed"}

\* C15 (as stated): when the context is cancelled while the command is
\* running, the process is killed and the Execute does not return
\* cacheable=true.
C15_CancelledRunIsKilled ==
    (pc = "done" /\ CancelledWhileRunning) => (proc = "killed" /\ ~cacheable)

\* C15 (amended): when the context is cancelled while the command is running,
\* Execute eventually returns; a process that was killed gives the exit code
\* -1, in the ActionResult if one is returned, and its Execute never returns
\* cacheable=true.
C15_CancelledRunReturns ==
    /\ [](proc = "killed" =>
            /\ ctxDone /\ exitCode = -1
            /\ response.hasResult => response.result.ExitCode = -1
            /\ ~cacheable)
    /\ ((pc = "running" /\ ctxDone) ~> (pc = "done"))

\* An Execute whose process was killed after a cancellation has returned an
\* ActionResult with the exit code -1 for an action that may be cached.
C15_Witness ==
    /\ pc = "done" /\ CancelledWhileRunning /\ proc = "killed"
    /\ response.hasResult /\ response.result.ExitCode = -1
    /\ ~action.DoNotCache /\ ~cacheable

\* prepareFilesystem has returned, with or without an error, and nothing
\* has run since.
Staged == pc = "run_command" \/ (pc = "done" /\ proc = "none" /\ command # zeroCommand)

\* C16: once the input files have been materialized, with or without an
\* error, every path a file was materialized at either has no file or has the
\* file of the input tree, with the whole blob and the mode 0555 or 0444; an
\* empty or partial file is never left behind.
C16_InputFileWholeOrAbsent ==
    Staged =>
        \A p \in touched :
            IsFile(fs, p) =>
                \E e \in TreeAt(GetDirectory(action.InputRootDigest), pathBuildRoot) :
                    e.path = p /\ e.node = fs[p]

\* The file the i-th FileNode of the input root asks for, and its path.
RootFile(i) ==
    [path |-> Join(<<pathBuildRoot, GetDirectory(action.InputRootDigest).Files[i].Name>>),
     node |-> fileNode(GetBlob(GetDirectory(action.InputRootDigest).Files[i].Digest),
                       IF GetDirectory(action.InputRootDigest).Files[i].IsExecutable
                          THEN ModeExecutable ELSE ModeRegular)]

\* C17: in the filesystem prepareFilesystem leaves, materializing an input
\* file at a path where a file exists fails and leaves the filesystem as it
\* was, whatever blob and mode are asked for; and when the input root has two
\* FileNodes for one path and the CAS answers every call, Execute fails on
\* the second with the file of the first in place, its contents and mode
\* unchanged, and no command run.
C17_ExistingFileIsKept ==
    /\ Staged =>
          \A p \in DOMAIN fs, data \in AllFileData, isExecutable \in BOOLEAN :
              IsFile(fs, p) =>
                  \E r \in {Expose(stage(fs), noFault, DigestOfData(data), p, isExecutable)} :
                      r.err = osError("EEXIST", "open") /\ r.fs = fs
    /\ (Staged /\ casFailure = nil) =>
          \A i, j \in 1..Len(GetDirectory(action.InputRootDigest).Files) :
              (i < j /\ RootFile(i).path = RootFile(j).path
                     /\ \A k \in 1..(i - 1) : RootFile(k).path # RootFile(i).path) =>
                  /\ pc = "done" /\ ~response.hasResult /\ ~cacheable
                  /\ response.status = osError("EEXIST", "open")
                  /\ RootFile(i).path \in touched
                  /\ fs[RootFile(i).path] = RootFile(i).node

\* Execute has failed on the second of two FileNodes named "a": the file of
\* the first, "hello" with mode 0444, is in place.
C17_Witness ==
    /\ pc = "done" /\ action.InputRootDigest = DigestFromMessage(dirDup)
    /\ response.status = osError("EEXIST", "open")
    /\ Join(<<pathBuildRoot, nameA>>) \in touched
    /\ fs[Join(<<pathBuildRoot, nameA>>)] = fileNode(hello, ModeRegular)

\* The Tree message behind a tree digest.
TreeOf(digest) == digest.Hash[2]
Range(seq) == {seq[i] : i \in DOMAIN seq}

RECURSIVE DiskDirectory(_)
\* The Directory message that describes the directory at path p: its entries
\* by name, files with the digest of their contents, directories with the
\* digest of their own Directory message.
DiskDirectory(p) ==
    LET entries == sortedByName(Entries(fs, p))
        isFile(q) == fs[q].type = "file"
        isDir(q) == fs[q].type = "dir"
        isLink(q) == fs[q].type = "symlink"
        files == SelectSeq(entries, isFile)
        dirs == SelectSeq(entries, isDir)
        links == SelectSeq(entries, isLink)
    IN  Directory(
          [i \in DOMAIN files |->
              [Name |-> Base(files[i]), Digest |-> DigestOfData(fs[files[i]].data),
               IsExecutable |-> IsExecutableMode(fs[files[i]].mode)]],
          [i \in DOMAIN dirs |->
              [Name |-> Base(dirs[i]),
               Digest |-> DigestFromMessage(DiskDirectory(dirs[i]))]],
          [i \in DOMAIN links |-> SymlinkNode(Base(links[i]), fs[links[i]].data)])

\* Execute has returned a result with output directories.
TreesUploaded == pc = "done" /\ response.hasResult /\ Len(result.OutputDirectories) > 0

C20_TreeDigestIsDetermined ==
    TreesUploaded =>
        \A i \in DOMAIN result.OutputDirectories :
            \E path \in {Join(<<pathBuildRoot, result.OutputDirectories[i].Path>>)} :
                \A order \in ChildOrders(childrenOf(stage(fs), noFault, path)) :
                    uploadTree(stage(fs), noFault, path, order).digest
                        = result.OutputDirectories[i].TreeDigest

\* The stages of Execute, in the order of its code.
Stages ==
    <<"get_command", "prepare_filesystem", "run_command", "running", "upload_stdout",
      "upload_stderr", "upload_output_files", "upload_output_directories", "done">>
StageIndex(p) == CHOOSE i \in DOMAIN Stages : Stages[i] = p

\* The filesystem as prepareFilesystem leaves it when it returns nil.
InputsStaged ==
    /\ \A e \in TreeAt(GetDirectory(action.InputRootDigest), pathBuildRoot) :
          Exists(fs, e.path) /\ fs[e.path] = e.node
    /\ \A i \in DOMAIN command.OutputFiles :
          IsDir(fs, Dir(Join(<<pathBuildRoot, command.OutputFiles[i]>>)))
    /\ IsDir(fs, pathTempRoot)

\* C19: within one Execute the stages run in the order of the code.  The
\* process runs only with the whole input tree, the output parents and the
\* temp root in place; stdout, stderr and the outputs are uploaded only after
\* the process has ended; an Execute that returned an error before a stage
\* has not started it; a step moves Execute to the next stage or to its
\* return, an error only to its return, and a process is started only by
\* runCommand and an upload only after cmd.Run has returned.
C19_StagesInOrder ==
    /\ []((proc = "running") => (pc = "running" /\ ~harvested /\ InputsStaged))
    /\ []((harvested \/ pc \in HarvestStages) => proc \in {"exited", "killed"})
    /\ []((pc = "done" /\ proc \in {"none", "failed"}) =>
             (~harvested /\ ~response.hasResult /\ result = zeroResult))
    /\ []((pc = "done" /\ casFailure.op \in {"GetAction", "GetCommand"}) =>
             (proc = "none" /\ touched = {}))
    /\ [][/\ pc' # pc =>
              \/ pc' = "done"
              \/ pc \in {"idle", "done"} /\ pc' = "get_command"
              \/ pc \notin {"idle", "done"} /\ StageIndex(pc') = StageIndex(pc) + 1
          /\ (response'.status # nil /\ response' # response) => pc' = "done"
          /\ (proc' = "running" /\ proc # "running") => pc = "run_command"
          /\ (harvested' /\ ~harvested) => pc = "upload_stdout"]_vars

\* An Execute has gone through every stage: its process exited, the streams
\* and an output file were uploaded and the result was returned.
C19_Witness ==
    /\ pc = "done" /\ response.hasResult /\ harvested /\ proc = "exited"
    /\ Len(response.result.OutputFiles) > 0
    /\ InputsStaged

(***************************************************************************)
(* Properties of the action cache.                                         *)
(***************************************************************************)
\* C10: once a PutActionResult(instance, d, R) has completed, whatever calls
\* overlap, GetActionResult(instance, d) returns without error a message equal
\* to the R of the last such call to complete; the store holds that whole R
\* under the key (instance, d.Hash) and holds nothing under any other key.
C10_GetReturnsLastPut ==
    /\ (returned.called /\ returned.last.count > 0) =>
          /\ returned.err = nil
          /\ returned.result = returned.last.result
    /\ \A i \in ACInstances, d \in ACDigests :
          completed[putKey(i, d)].count > 0 =>
              /\ blobKey(i, d) \in DOMAIN store
              /\ Unmarshal(store[blobKey(i, d)]) = completed[putKey(i, d)].result
    /\ \A k \in DOMAIN store :
          \E i \in ACInstances, d \in ACDigests :
              k = blobKey(i, d) /\ completed[putKey(i, d)].count > 0

\* GetActionResult has returned the result of the second PutActionResult to
\* complete for its key, while a third one, with another result, is half
\* way through its stream.
C10_Witness ==
    /\ returned.called /\ returned.last.count = 2
    /\ returned.result = resultBuilt
    /\ completed[putKey(returned.instance, returned.digest)] = returned.last
    /\ \E c \in InFlight :
          /\ calls[c].instance = returned.instance
          /\ calls[c].digest = returned.digest
          /\ calls[c].result = resultFailed
          /\ Len(calls[c].buffer) = 1

\* C11: GetActionResult(instance, d) called when no PutActionResult(instance,
\* d, .) has completed fails with NotFound and returns no message, whatever
\* has been stored under the same digest in another instance or under another
\* digest in the same instance; and a GetActionResult step leaves the store as
\* it was.
C11_GetWithoutPutIsNotFound ==
    /\ [](returned.called /\ returned.last.count = 0 =>
            /\ StatusCode(returned.err) = "NotFound"
            /\ returned.result = zeroResult
            /\ blobKey(returned.instance, returned.digest) \notin DOMAIN store)
    /\ [][returned'.called /\ returned' # returned => store' = store]_vars

\* GetActionResult(instance, d) has failed with NotFound while the store held
\* a result for d in the other instance and a result for another digest in
\* the same instance.
C11_Witness ==
    /\ returned.called /\ returned.last.count = 0
    /\ returned.err = casError("NotFound", "Get")
    /\ \E i \in ACInstances \ {returned.instance} :
          blobKey(i, returned.digest) \in DOMAIN store
    /\ \E d \in ACDigests \ {returned.digest} :
          blobKey(returned.instance, d) \in DOMAIN store
====
